---- MODULE Spec2Model ----
(***************************************************************************)
(* The question pipeline of the Cayman Workforce Intelligence Assistant:   *)
(* the Streamlit pages of app.py (classify, run_sql, show_results,         *)
(* ask_gpt), the command-line session of chat_duckdb.py (route, handlers,  *)
(* llm_format, main) and render_analytics_response.                        *)
(*                                                                         *)
(* Texts are sequences of one-character strings, so that `k in q` is the   *)
(* substring test Python makes and q.lower() is a real conversion.         *)
(* Tables are abstracted to their row counts.                              *)
(***************************************************************************)
EXTENDS Integers, Sequences, FiniteSets, TLC

\* ------------------------------------------------------------------ bounds
\* A command-line session reads at most MaxLines questions.
MaxLines == 2
\* The longest question is MaxFrags fragments joined by single spaces.
MaxFrags == 2
\* The model service is configured, per call, with the outcomes of its next
\* MaxAttempts requests.
MaxAttempts == 3

None == "None"

\* -------------------------------------------------------------------- text
\* str.lower() on the letters: every upper-case letter maps to its lower-case one.
UpperToLower ==
    [ A |-> "a", B |-> "b", C |-> "c", D |-> "d", E |-> "e", F |-> "f", G |-> "g",
      H |-> "h", I |-> "i", J |-> "j", K |-> "k", L |-> "l", M |-> "m", N |-> "n",
      O |-> "o", P |-> "p", Q |-> "q", R |-> "r", S |-> "s", T |-> "t", U |-> "u",
      V |-> "v", W |-> "w", X |-> "x", Y |-> "y", Z |-> "z" ]

LowerChar(c) == IF c \in DOMAIN UpperToLower THEN UpperToLower[c] ELSE c

Lower(s) == [i \in 1..Len(s) |-> LowerChar(s[i])]

\* Python's `k in s` for strings: k occurs in s as a contiguous substring.
Has(s, k) ==
    \E i \in 1..(Len(s) - Len(k) + 1) : SubSeq(s, i, i + Len(k) - 1) = k

\* any(k in s for k in keywords)
HasAny(s, keywords) == \E k \in keywords : Has(s, k)

\* -------------------------------------------------- app.py: intent detection
INTENTS ==
    { "top_tech", "bottom_tech", "entry_tech", "high_salary", "low_salary",
      "avg_salary", "salary_trend", "general" }

\* A variant of classify with the entry_tech test moved in front of the
\* "most tech" test.
classify_entry_first(q) ==
    LET ql == Lower(q) IN
    IF Has(ql, <<"e","n","t","r","y">>) /\ Has(ql, <<"t","e","c","h">>) THEN "entry_tech"
    ELSE IF Has(ql, <<"m","o","s","t"," ","t","e","c","h">>) THEN "top_tech"
    ELSE IF Has(ql, <<"l","e","a","s","t"," ","t","e","c","h">>) THEN "bottom_tech"
    ELSE IF Has(ql, <<"h","i","g","h","e","s","t">>) /\ Has(ql, <<"s","a","l","a","r","y">>) THEN "high_salary"
    ELSE IF Has(ql, <<"l","o","w","e","s","t">>) /\ Has(ql, <<"s","a","l","a","r","y">>) THEN "low_salary"
    ELSE IF Has(ql, <<"a","v","e","r","a","g","e">>) /\ Has(ql, <<"s","a","l","a","r","y">>) THEN "avg_salary"
    ELSE IF Has(ql, <<"t","r","e","n","d">>) /\ Has(ql, <<"s","a","l","a","r","y">>) THEN "salary_trend"
    ELSE "general"

classify(q) ==
    LET ql == Lower(q) IN
    IF Has(ql, <<"m","o","s","t"," ","t","e","c","h">>) THEN "top_tech"
    ELSE IF Has(ql, <<"l","e","a","s","t"," ","t","e","c","h">>) THEN "bottom_tech"
    ELSE IF Has(ql, <<"e","n","t","r","y">>) /\ Has(ql, <<"t","e","c","h">>) THEN "entry_tech"
    ELSE IF Has(ql, <<"h","i","g","h","e","s","t">>) /\ Has(ql, <<"s","a","l","a","r","y">>) THEN "high_salary"
    ELSE IF Has(ql, <<"l","o","w","e","s","t">>) /\ Has(ql, <<"s","a","l","a","r","y">>) THEN "low_salary"
    ELSE IF Has(ql, <<"a","v","e","r","a","g","e">>) /\ Has(ql, <<"s","a","l","a","r","y">>) THEN "avg_salary"
    ELSE IF Has(ql, <<"t","r","e","n","d">>) /\ Has(ql, <<"s","a","l","a","r","y">>) THEN "salary_trend"
    ELSE "general"

\* ------------------------------------------------- chat_duckdb.py: the router
LFS_KEYWORDS ==
    { <<"l","a","b","o","u","r">>,
      <<"l","a","b","o","r">>,
      <<"u","n","e","m","p","l","o","y","m","e","n","t">>,
      <<"u","n","e","m","p","l","o","y","e","d">>,
      <<"e","m","p","l","o","y","m","e","n","t">>,
      <<"e","m","p","l","o","y","e","d">>,
      <<"p","a","r","t","i","c","i","p","a","t","i","o","n"," ","r","a","t","e">>,
      <<"l","f","s">>,
      <<"l","a","b","o","u","r"," ","f","o","r","c","e"," ","s","u","r","v","e","y">>,
      <<"l","a","b","o","r"," ","f","o","r","c","e"," ","s","u","r","v","e","y">>,
      <<"j","o","b","l","e","s","s">>,
      <<"j","o","b","l","e","s","s","n","e","s","s">> }

WORC_KEYWORDS ==
    { <<"j","o","b"," ","p","o","s","t","i","n","g">>,
      <<"p","o","s","t","i","n","g","s">>,
      <<"v","a","c","a","n","c","y">>,
      <<"v","a","c","a","n","c","i","e","s">>,
      <<"o","p","e","n","i","n","g","s">>,
      <<"w","o","r","c">>,
      <<"j","o","b"," ","b","o","a","r","d">>,
      <<"a","d","v","e","r","t","i","s","e","d"," ","r","o","l","e","s">> }

PERMITS_KEYWORDS ==
    { <<"w","o","r","k"," ","p","e","r","m","i","t">>,
      <<"w","o","r","k"," ","p","e","r","m","i","t","s">>,
      <<"p","e","r","m","i","t","s">>,
      <<"p","e","r","m","i","t">>,
      <<"o","c","c","u","p","a","t","i","o","n">>,
      <<"o","c","c","u","p","a","t","i","o","n","s">>,
      <<"j","o","b","s"," ","f","i","l","l","e","d"," ","b","y"," ","p","e","r","m","i","t","s">> }

SCHOLARSHIP_KEYWORDS ==
    { <<"s","c","h","o","l","a","r","s","h","i","p">>,
      <<"s","c","h","o","l","a","r","s","h","i","p","s">>,
      <<"b","u","r","s","a","r","y">>,
      <<"b","u","r","s","a","r","i","e","s">>,
      <<"g","r","a","n","t">>,
      <<"g","r","a","n","t","s">>,
      <<"f","u","n","d","i","n","g"," ","f","o","r"," ","s","t","u","d","e","n","t","s">> }

STUDENT_KEYWORDS ==
    { <<"s","t","u","d","e","n","t">>,
      <<"s","t","u","d","e","n","t","s">>,
      <<"c","o","l","l","e","g","e">>,
      <<"u","n","i","v","e","r","s","i","t","y">>,
      <<"u","n","d","e","r","g","r","a","d">>,
      <<"u","n","d","e","r","g","r","a","d","u","a","t","e">>,
      <<"p","o","s","t","g","r","a","d">>,
      <<"p","o","s","t","g","r","a","d","u","a","t","e">>,
      <<"d","e","g","r","e","e">>,
      <<"d","e","g","r","e","e","s">>,
      <<"g","r","a","d","u","a","t","i","o","n">>,
      <<"g","r","a","d","u","a","t","e">>,
      <<"g","r","a","d","u","a","t","i","n","g">>,
      <<"n","e","a","r"," ","g","r","a","d","u","a","t","i","o","n">>,
      <<"a","b","o","u","t"," ","t","o"," ","g","r","a","d","u","a","t","e">>,
      <<"f","i","n","a","l"," ","y","e","a","r">> }

HANDLERS ==
    { "handle_lfs", "handle_worc", "handle_permits", "handle_scholarships",
      "handle_students", "fallback" }

route(question) ==
    LET q == Lower(question) IN
    IF HasAny(q, LFS_KEYWORDS) THEN "handle_lfs"
    ELSE IF HasAny(q, WORC_KEYWORDS) THEN "handle_worc"
    ELSE IF HasAny(q, PERMITS_KEYWORDS) THEN "handle_permits"
    ELSE IF HasAny(q, SCHOLARSHIP_KEYWORDS) THEN "handle_scholarships"
    ELSE IF HasAny(q, STUDENT_KEYWORDS) THEN "handle_students"
    ELSE "fallback"

\* ------------------------------------------------------ the model clients
\* What one request to the model service (client.chat.completions.create)
\* can do: answer with text, or raise a rate-limit error, a connection error
\* or another API error.
OUTCOMES == { "ok", "rate_limit", "transport", "other" }

\* The text of a successful answer, as the service sends it.
ModelContent == <<" ","S","u","m","m","a","r","y"," ","o","f"," ","t","h","e"," ","d","a","t","a","."," ">>

\* str.strip(): leading and trailing blanks removed.
RECURSIVE StripLeft(_)
StripLeft(s) ==
    IF s # <<>> /\ Head(s) = " " THEN StripLeft(Tail(s)) ELSE s

RECURSIVE StripRight(_)
StripRight(s) ==
    IF s # <<>> /\ s[Len(s)] = " " THEN StripRight(SubSeq(s, 1, Len(s) - 1)) ELSE s

Strip(s) == StripRight(StripLeft(s))

\* str(e) of the exception an outcome raises.
ErrorText(outcome) ==
    CASE outcome = "rate_limit" -> "RateLimitError"
      [] outcome = "transport"  -> "APIConnectionError"
      [] outcome = "other"      -> "BadRequestError"

\* No result yet: the call is still running, or no call was made.
NoResult == [kind |-> "none"]

Returned(value) == [kind |-> "returned", value |-> value]

Raised(exc) == [kind |-> "raised", exc |-> exc]

\* An ask_gpt whose except branch drops str(e) from the string it returns.
ask_gpt_without_detail(outcome) ==
    IF outcome = "ok"
    THEN Returned(Strip(ModelContent))
    ELSE Returned(<<"GPT Error: ">>)

\* ask_gpt after its one request ended with `outcome`: the stripped text, or
\* the "GPT Error: ..." string built in its except branch.
ask_gpt(outcome) ==
    IF outcome = "ok"
    THEN Returned(Strip(ModelContent))
    ELSE Returned(<<"GPT Error: ", ErrorText(outcome)>>)

\* llm_format after its one request ended with `outcome`: it has no except
\* branch, so every error of the request leaves it as an exception.
llm_format(outcome) ==
    IF outcome = "ok"
    THEN Returned(Strip(ModelContent))
    ELSE Raised(ErrorText(outcome))

CLIENTS == { "ask_gpt", "llm_format" }

ClientResult(c, outcome) ==
    IF c = "ask_gpt" THEN ask_gpt(outcome) ELSE llm_format(outcome)

\* ------------------------------------------------------------- the store
\* app.py: the tables the pages read.
TABLE_JOB_POSTINGS == "fact_job_postings_cleaned"
TABLE_LFS_OVERVIEW == "fact_lfs_overview"
TABLE_LFS_INDUSTRY == "fact_lfs_industry"
TABLE_LFS_OCC == "fact_lfs_occupation"
TABLE_WAGES == "fact_wages_2023"
TABLE_SPS == "fact_sps_text"

WEB_TABLES ==
    { TABLE_JOB_POSTINGS, TABLE_LFS_OVERVIEW, TABLE_LFS_INDUSTRY, TABLE_LFS_OCC,
      TABLE_WAGES, TABLE_SPS }

\* The row limits the code applies: LIMIT 15, LIMIT 50, head(100), head(300).
LimitTop == 15
LimitRecent == 50
SampleRows == 100
TableRows == 300
NoLimit == 0

Min(a, b) == IF a <= b THEN a ELSE b

\* A table is abstracted to three counts: its rows (each with a posting date
\* and a salary), its tech rows (entry-level, one employer each) and its
\* periods (the distinct year and year_month values); `ties` says whether
\* two of its rows have the same posting date.
RowCounts == { 0, 1, LimitTop + 1, LimitRecent + 1, SampleRows + 1, TableRows + 1 }

TableShapes ==
    { [rows |-> n, tech |-> t, periods |-> p, ties |-> b] :
        n \in RowCounts, t \in RowCounts, p \in RowCounts, b \in BOOLEAN }

PostingsShapes ==
    { sh \in TableShapes :
        /\ sh.tech \in {0, sh.rows}
        /\ sh.periods \in {Min(1, sh.rows), sh.rows}
        /\ sh.ties => sh.periods < sh.rows }

OtherShape == [rows |-> 1, tech |-> 0, periods |-> 1, ties |-> FALSE]

\* The databases a session can find: a set of tables, each with a shape.
WebStores ==
    { [t \in cat |-> IF t = TABLE_JOB_POSTINGS THEN sh ELSE OtherShape] :
        cat \in { {}, {TABLE_JOB_POSTINGS}, WEB_TABLES, WEB_TABLES \ {TABLE_JOB_POSTINGS} },
        sh \in PostingsShapes }

MODIFYING == { "insert", "update", "delete", "drop", "alter", "create" }

\* A statement other than SELECT.
Statement(op, table) ==
    [op |-> op, table |-> table, where |-> "", group |-> "", limit |-> 0, cols |-> {}]

POSTINGS_COLUMNS ==
    { "posting_date_clean", "employer_name", "job_title", "industry",
      "industry_vertical", "salary_min", "salary_max", "salary_avg",
      "experience_bucket", "fixed_is_tech_job", "year", "year_month" }

\* A statement, as much of it as decides what it returns.
Select(table, where, group, limit, cols) ==
    [op |-> "select", table |-> table, where |-> where, group |-> group,
     limit |-> limit, cols |-> cols]

\* The rows a SELECT matches before its LIMIT.
MatchedRows(sql, shape) ==
    CASE sql.group = "employer_name"            -> shape.tech
      [] sql.group \in {"year", "year_month"}   -> shape.periods
      [] sql.where \in {"tech", "tech_entry"}   -> shape.tech
      [] OTHER                                  -> shape.rows

\* The row orders the store may return for a SELECT: one, unless its ORDER BY
\* key is the same for two of the matched rows (the count of an employer with
\* one tech row each, the posting date of two postings), where SQL leaves the
\* order of the equal rows, and which of them a LIMIT keeps, to the store.
RowOrders(sql, shape) ==
    CASE sql.group = "employer_name"          -> IF shape.tech >= 2 THEN {0, 1} ELSE {0}
      [] sql.group \in {"year", "year_month"} -> {0}
      [] OTHER -> IF shape.ties /\ MatchedRows(sql, shape) >= 2 THEN {0, 1} ELSE {0}

\* The store after a data-modifying statement.
Mutate(st, sql) ==
    CASE sql.op = "drop"   -> [t \in DOMAIN st \ {sql.table} |-> st[t]]
      [] sql.op = "delete" -> [st EXCEPT ![sql.table] = [rows |-> 0, tech |-> 0, periods |-> 0, ties |-> FALSE]]
      [] sql.op = "create" -> [t \in DOMAIN st \cup {sql.table} |->
                                  IF t \in DOMAIN st THEN st[t] ELSE [rows |-> 0, tech |-> 0, periods |-> 0, ties |-> FALSE]]
      [] OTHER             -> st

\* con.execute(sql).fetchdf() on a connection c over the store st: DuckDB
\* refuses a table it does not have, and refuses every data-modifying
\* statement on a read-only connection; every statement fails once the
\* database file can no longer be reached.
Execute(c, st, sql) ==
    IF ~c.reachable
    THEN [ok |-> FALSE, err |-> "IOException", rows |-> 0, cols |-> {},
          orders |-> {0}, store |-> st, mutated |-> FALSE]
    ELSE IF sql.op \notin MODIFYING \cup {"select"}
    THEN [ok |-> FALSE, err |-> "ParserException", rows |-> 0, cols |-> {},
          orders |-> {0}, store |-> st, mutated |-> FALSE]
    ELSE IF sql.op # "create" /\ sql.table \notin DOMAIN st
    THEN [ok |-> FALSE, err |-> "CatalogException", rows |-> 0, cols |-> {},
          orders |-> {0}, store |-> st, mutated |-> FALSE]
    ELSE IF sql.op = "select"
    THEN LET n == MatchedRows(sql, st[sql.table]) IN
         [ok |-> TRUE, err |-> "",
          rows |-> IF sql.limit = NoLimit THEN n ELSE Min(n, sql.limit),
          cols |-> sql.cols, orders |-> RowOrders(sql, st[sql.table]),
          store |-> st, mutated |-> FALSE]
    ELSE IF c.read_only
    THEN [ok |-> FALSE, err |-> "InvalidInputException", rows |-> 0, cols |-> {},
          orders |-> {0}, store |-> st, mutated |-> FALSE]
    ELSE [ok |-> TRUE, err |-> "", rows |-> 0, cols |-> {"Count"},
          orders |-> {0}, store |-> Mutate(st, sql), mutated |-> TRUE]

\* A pandas DataFrame: its number of rows and its columns.
DataFrame(rows, cols) == [rows |-> rows, cols |-> cols]

\* pd.DataFrame(): no rows and no columns.
EmptyFrame == DataFrame(0, {})

\* df.head(n)
HeadRows(df, n) == [df EXCEPT !.rows = Min(df.rows, n)]

\* app.py: con = duckdb.connect(DB_PATH, read_only=True)
WebConnection == [open |-> TRUE, read_only |-> TRUE, reachable |-> TRUE]

NoConnection == [open |-> FALSE, read_only |-> FALSE, reachable |-> TRUE]

\* One element rendered on the page: st.error, st.dataframe, a chart, st.write.
\* `of` is the number of rows of the frame the element was cut from, `sql` the
\* statement an element quotes.
NoStatement == [op |-> "none"]

ScreenItem(kind, text, rows, of) ==
    [kind |-> kind, text |-> text, rows |-> rows, of |-> of, sql |-> NoStatement]

\* run_sql(sql) on connection c: the frame of the result; on any error of the
\* store the error text is shown with st.error and an empty frame is returned.
run_sql(c, st, sql) ==
    LET r == Execute(c, st, sql) IN
    IF r.ok
    THEN [df |-> DataFrame(r.rows, r.cols), shown |-> <<>>, orders |-> r.orders,
          ok |-> TRUE, store |-> r.store, mutated |-> r.mutated]
    ELSE [df |-> EmptyFrame,
          shown |-> << ScreenItem("error", <<"SQL Error: ", r.err>>, 0, 0) >>,
          orders |-> {0}, ok |-> FALSE, store |-> r.store, mutated |-> r.mutated]

\* One call of con.execute as the run remembers it: the statement, whether it
\* succeeded, how many rows it gave and in which of the possible orders.
Executed(sql, ok, rows, order) == [sql |-> sql, ok |-> ok, rows |-> rows, order |-> order]

\* --------------------------------------------- app.py: the Ask Anything routes
\* The two if/elif chains after classify: the first ends after entry_tech, the
\* second starts at high_salary and ends with the else of the general route.
RoutesFor(i) ==
    (IF i \in {"top_tech", "bottom_tech", "entry_tech"} THEN <<i>> ELSE <<>>)
    \o
    (IF i \in {"high_salary", "low_salary", "avg_salary", "salary_trend"}
     THEN <<i>> ELSE <<"general">>)

RouteQuery(r) ==
    CASE r = "top_tech" ->
            Select(TABLE_JOB_POSTINGS, "tech", "employer_name", LimitTop,
                   {"employer_name", "tech_roles"})
      [] r = "bottom_tech" ->
            Select(TABLE_JOB_POSTINGS, "tech", "employer_name", LimitTop,
                   {"employer_name", "tech_roles"})
      [] r = "entry_tech" ->
            Select(TABLE_JOB_POSTINGS, "tech_entry", "", LimitRecent,
                   {"job_title", "employer_name", "salary_avg"})
      [] r = "high_salary" ->
            Select(TABLE_JOB_POSTINGS, "salary", "year", NoLimit, {"year", "max_salary"})
      [] r = "low_salary" ->
            Select(TABLE_JOB_POSTINGS, "salary", "year", NoLimit, {"year", "min_salary"})
      [] r = "avg_salary" ->
            Select(TABLE_JOB_POSTINGS, "salary", "year", NoLimit, {"year", "avg_salary"})
      [] r = "salary_trend" ->
            Select(TABLE_JOB_POSTINGS, "", "year_month", NoLimit,
                   {"year_month", "avg_salary"})
      [] r = "general" ->
            Select(TABLE_JOB_POSTINGS, "", "", LimitRecent, POSTINGS_COLUMNS)

\* The chart arguments each route passes to show_results.
RouteChart(r) ==
    CASE r \in {"top_tech", "bottom_tech"} ->
            [type |-> "bar", x |-> "employer_name", y |-> "tech_roles"]
      [] r = "high_salary" -> [type |-> "line", x |-> "year", y |-> "max_salary"]
      [] r = "low_salary" -> [type |-> "line", x |-> "year", y |-> "min_salary"]
      [] r = "avg_salary" -> [type |-> "line", x |-> "year", y |-> "avg_salary"]
      [] r = "salary_trend" -> [type |-> "line", x |-> "year_month", y |-> "avg_salary"]
      [] OTHER -> [type |-> None, x |-> None, y |-> None]

\* px.bar / px.line raise ValueError when x or y is no column of the frame.
ChartRaises(df, chart) == ~({chart.x, chart.y} \subseteq df.cols)

\* The Job Postings Explorer's load: every posting with a date, no LIMIT.
ExplorerQuery ==
    Select(TABLE_JOB_POSTINGS, "dated", "", NoLimit,
           { "posting_date_clean", "employer_name", "job_title", "industry",
             "industry_vertical", "salary_min", "salary_max", "salary_avg",
             "experience_bucket", "fixed_is_tech_job" })

\* Ask AI About These Jobs: the terms that restrict the sample to ICT roles.
tech_terms ==
    { <<"t","e","c","h">>,
      <<"i","c","t">>,
      <<"i","t"," ">>,
      <<"i","t"," ","j","o","b">>,
      <<"t","e","c","h","n","o","l","o","g","y">>,
      <<"s","o","f","t","w","a","r","e">>,
      <<"d","e","v","e","l","o","p","e","r">>,
      <<"c","o","m","p","u","t","e","r">>,
      <<"e","n","g","i","n","e","e","r">>,
      <<"c","y","b","e","r">> }

\* What the box of Ask AI About These Jobs holds: nothing, or a question.
ExplorerQuestions ==
    { <<>>,
      <<"W","h","i","c","h"," ","S","o","f","t","w","a","r","e"," ","j","o","b","s"," ","p","a","y"," ","b","e","s","t","?">>,
      <<"W","h","o"," ","i","s"," ","h","i","r","i","n","g","?">> }

\* The questions typed into the Ask Anything box.
AskQuestions ==
    { <<"W","h","i","c","h"," ","e","m","p","l","o","y","e","r","s"," ","p","o","s","t","e","d"," ","t","h","e"," ","m","o","s","t"," ","t","e","c","h"," ","j","o","b","s","?">>,
      <<"W","h","o"," ","h","a","s"," ","t","h","e"," ","l","e","a","s","t"," ","t","e","c","h"," ","r","o","l","e","s">>,
      <<"E","n","t","r","y"," ","l","e","v","e","l"," ","T","e","c","h"," ","j","o","b","s">>,
      <<"H","i","g","h","e","s","t"," ","s","a","l","a","r","y"," ","b","y"," ","y","e","a","r">>,
      <<"l","o","w","e","s","t"," ","s","a","l","a","r","y">>,
      <<"A","v","e","r","a","g","e"," ","s","a","l","a","r","y"," ","b","y"," ","y","e","a","r"," ","f","o","r"," ","t","e","c","h"," ","r","o","l","e","s">>,
      <<"s","a","l","a","r","y"," ","t","r","e","n","d">>,
      <<"H","o","w"," ","m","a","n","y"," ","j","o","b","s"," ","a","r","e"," ","t","h","e","r","e","?">>,
      <<"e","n","t","r","y"," ","r","o","l","e","s"," ","w","i","t","h"," ","t","h","e"," ","m","o","s","t"," ","t","e","c","h"," ","a","n","d"," ","h","i","g","h","e","s","t"," ","s","a","l","a","r","y">> }

\* ------------------------------------------- chat_duckdb.py: tables, handlers
\* The table names of the data lake, as texts: the handlers compare them in
\* lower case and by prefix.
LFS_TABLE ==
    <<"p","d","f","_","t","h","e","_","c","a","y","m","a","n","_","i","s","l","a","n","d","s",
      "_","l","a","b","o","u","r","_","f","o","r","c","e","_","s","u","r","v","e","y","_","r",
      "e","p","o","r","t","_","f","a","l","l","_","2","0","2","4","_","t","1">>

WORC_ANNUAL_POSTINGS ==
    <<"w","o","r","c","_","d","a","t","a","_","v","3","_","a","n","n","u","a","l","_","p","o",
      "s","t","i","n","g","s">>

WORC_TOTAL_POSTINGS ==
    <<"w","o","r","c","_","d","a","t","a","_","v","3","_","t","o","t","a","l","_","p","o","s",
      "t","i","n","g","s">>

WORC_INDUSTRY ==
    <<"w","o","r","c","_","d","a","t","a","_","v","3","_","i","n","d","u","s","t","r","y">>

PERMITS_TABLE ==
    <<"c","o","p","y","_","o","f","_","c","u","r","r","e","n","t","_","w","p","_","b","y","_",
      "o","c","c","u","p","a","t","i","o","n","s","_","6","_","d","e","c","_","2","0","2","4",
      "_","s","h","e","e","t","2">>

SCHOLARSHIP_TABLE ==
    <<"s","c","h","o","l","a","r","s","h","i","p","_","d","a","t","a","b","a","s","e","_","c",
      "j","_","e","d","i","t","s","_","v","2","_","b","o","n","d","i","n","g">>

LOCAL_STUDENT_PREFIX ==
    <<"l","o","c","a","l","_","s","t","u","d","e","n","t","s">>

OVERSEAS_STUDENT_PREFIX ==
    <<"o","v","e","r","s","e","a","s","_","s","t","u","d","e","n","t","s">>

\* Student tables as a data lake names them.
LOCAL_STUDENTS_2024 ==
    <<"L","o","c","a","l","_","S","t","u","d","e","n","t","s","_","2","0","2","4">>

OVERSEAS_STUDENTS_2024 ==
    <<"o","v","e","r","s","e","a","s","_","s","t","u","d","e","n","t","s","_","2","0","2","4">>

CLI_TABLES ==
    { LFS_TABLE, WORC_ANNUAL_POSTINGS, WORC_TOTAL_POSTINGS, WORC_INDUSTRY, PERMITS_TABLE,
      SCHOLARSHIP_TABLE, LOCAL_STUDENTS_2024, OVERSEAS_STUDENTS_2024 }

\* head(150), head(200), head(400), head(600) of the handlers.
PermitRows == 150
ScholarshipRows == 200
LocalStudentRows == 400
OverseasStudentRows == 600

\* The data lakes a session can find: some of the tables, all of one size.
CliCatalogs ==
    { {}, CLI_TABLES, CLI_TABLES \ {LFS_TABLE}, {WORC_TOTAL_POSTINGS},
      {LFS_TABLE, LOCAL_STUDENTS_2024}, {PERMITS_TABLE, SCHOLARSHIP_TABLE} }

CliStores ==
    { [t \in cat |-> [rows |-> n, tech |-> 0, periods |-> 0, ties |-> FALSE]] :
        cat \in CliCatalogs, n \in {0, 1, SampleRows + 1} }

\* str.startswith
StartsWith(s, prefix) ==
    Len(s) >= Len(prefix) /\ SubSeq(s, 1, Len(prefix)) = prefix

\* connect_db(): duckdb.connect(str(DB_PATH)), opened without read_only.
connect_db == [open |-> TRUE, read_only |-> FALSE, reachable |-> TRUE]

\* safe_select(con, sql): the frame, or a RuntimeError that carries the
\* error text and the statement.
safe_select(c, st, sql) ==
    LET r == Execute(c, st, sql) IN
    IF r.ok
    THEN [kind |-> "returned", df |-> DataFrame(r.rows, r.cols), sql |-> sql, exc |-> None,
          text |-> <<>>]
    ELSE [kind |-> "raised", df |-> EmptyFrame, sql |-> sql, exc |-> "RuntimeError",
          text |-> <<"SQL error: ", r.err, "QUERY:">>]

\* table_exists(con, name): whether the store has a table of that name,
\* compared in lower case; the error of con.execute is not caught.
table_exists(c, st, name) ==
    [raised |-> ~c.reachable,
     found |-> c.reachable /\ \E t \in DOMAIN st : Lower(t) = Lower(name)]

SelectAll(table) == Select(table, "", "", NoLimit, {"*"})

\* No handler has run.
NoHandled == [res |-> NoResult, reads |-> <<>>, sent |-> <<>>]

\* What a handler did: the text it returned or the exception it raised, the
\* tables it read, and the data it sent to the model (rows sent, rows read).
Handled(res, reads, sent) == [res |-> res, reads |-> reads, sent |-> sent]

NoPrompt == <<>>

Prompt(by, rows, of) == << [by |-> by, rows |-> rows, of |-> of] >>

\* handle_lfs: every row of the LFS table goes into the prompt.
handle_lfs(c, st, o) ==
    IF table_exists(c, st, LFS_TABLE).raised
    THEN Handled(Raised("IOException"), <<>>, NoPrompt)
    ELSE IF ~table_exists(c, st, LFS_TABLE).found
    THEN Handled(Returned(<<"The Fall 2024 Labour Force Survey table is not present in the data lake.">>),
                 <<>>, NoPrompt)
    ELSE LET r == safe_select(c, st, Select(LFS_TABLE, "", "", NoLimit, {"Unnamed: 0"})) IN
         IF r.kind = "raised" THEN Handled(Raised(r.exc), <<>>, NoPrompt)
         ELSE Handled(llm_format(o), <<LFS_TABLE>>, Prompt("handle_lfs", r.df.rows, r.df.rows))

\* The rows of SELECT * over each of the tables, added up.
RECURSIVE TotalRows(_, _, _)
TotalRows(c, st, tables) ==
    IF tables = <<>> THEN 0
    ELSE safe_select(c, st, SelectAll(Head(tables))).df.rows + TotalRows(c, st, Tail(tables))

\* The rows of df.head(limit) of SELECT * over each of the tables, added up.
RECURSIVE TotalHeadRows(_, _, _, _)
TotalHeadRows(c, st, tables, limit) ==
    IF tables = <<>> THEN 0
    ELSE HeadRows(safe_select(c, st, SelectAll(Head(tables))).df, limit).rows
         + TotalHeadRows(c, st, Tail(tables), limit)

\* A handle_worc without the `if not parts` return: it asks the model
\* whatever it found.
handle_worc_always_asks(c, st, o) ==
    LET found == SelectSeq(<<WORC_ANNUAL_POSTINGS, WORC_TOTAL_POSTINGS, WORC_INDUSTRY>>,
                           LAMBDA t : table_exists(c, st, t).found)
        rows == TotalRows(c, st, found)
    IN
    IF table_exists(c, st, WORC_ANNUAL_POSTINGS).raised
    THEN Handled(Raised("IOException"), <<>>, NoPrompt)
    ELSE Handled(llm_format(o), found, Prompt("handle_worc", rows, rows))

\* handle_worc: every row of each WORC table that exists.
handle_worc(c, st, o) ==
    LET found == SelectSeq(<<WORC_ANNUAL_POSTINGS, WORC_TOTAL_POSTINGS, WORC_INDUSTRY>>,
                           LAMBDA t : table_exists(c, st, t).found)
        rows == TotalRows(c, st, found)
    IN
    IF table_exists(c, st, WORC_ANNUAL_POSTINGS).raised
    THEN Handled(Raised("IOException"), <<>>, NoPrompt)
    ELSE IF found = <<>>
    THEN Handled(Returned(<<"No WORC job-posting tables were found in the data lake.">>),
                 <<>>, NoPrompt)
    ELSE Handled(llm_format(o), found, Prompt("handle_worc", rows, rows))

\* handle_permits: the first 150 rows, by total permits.
handle_permits(c, st, o) ==
    IF table_exists(c, st, PERMITS_TABLE).raised
    THEN Handled(Raised("IOException"), <<>>, NoPrompt)
    ELSE IF ~table_exists(c, st, PERMITS_TABLE).found
    THEN Handled(Returned(<<"The work-permits-by-occupation table is not present in the data lake.">>),
                 <<>>, NoPrompt)
    ELSE LET r == safe_select(c, st, SelectAll(PERMITS_TABLE)) IN
         IF r.kind = "raised" THEN Handled(Raised(r.exc), <<>>, NoPrompt)
         ELSE Handled(llm_format(o), <<PERMITS_TABLE>>,
                      Prompt("handle_permits", HeadRows(r.df, PermitRows).rows, r.df.rows))

\* handle_scholarships: the first 200 rows.
handle_scholarships(c, st, o) ==
    IF table_exists(c, st, SCHOLARSHIP_TABLE).raised
    THEN Handled(Raised("IOException"), <<>>, NoPrompt)
    ELSE IF ~table_exists(c, st, SCHOLARSHIP_TABLE).found
    THEN Handled(Returned(<<"Scholarship programme tables are not present in the data lake.">>),
                 <<>>, NoPrompt)
    ELSE LET r == safe_select(c, st, SelectAll(SCHOLARSHIP_TABLE)) IN
         IF r.kind = "raised" THEN Handled(Raised(r.exc), <<>>, NoPrompt)
         ELSE Handled(llm_format(o), <<SCHOLARSHIP_TABLE>>,
                      Prompt("handle_scholarships", HeadRows(r.df, ScholarshipRows).rows, r.df.rows))

\* The tables of the store in some fixed order (duckdb_tables()).
RECURSIVE SeqOf(_)
SeqOf(S) ==
    IF S = {} THEN <<>>
    ELSE LET x == CHOOSE y \in S : TRUE IN <<x>> \o SeqOf(S \ {x})

\* handle_students: the first 400 rows of every local-students table and the
\* first 600 of every overseas-students table.
handle_students(c, st, o) ==
    LET all_tables == SeqOf(DOMAIN st)
        locals == SelectSeq(all_tables, LAMBDA t : StartsWith(Lower(t), LOCAL_STUDENT_PREFIX))
        overseas == SelectSeq(all_tables, LAMBDA t : StartsWith(Lower(t), OVERSEAS_STUDENT_PREFIX))
        sent == TotalHeadRows(c, st, locals, LocalStudentRows)
                + TotalHeadRows(c, st, overseas, OverseasStudentRows)
        read == TotalRows(c, st, locals \o overseas)
    IN
    IF safe_select(c, st, SelectAll(LOCAL_STUDENT_PREFIX)).exc = "RuntimeError" /\ ~c.reachable
    THEN Handled(Raised("RuntimeError"), <<>>, NoPrompt)
    ELSE IF locals \o overseas = <<>>
    THEN Handled(Returned(<<"No local or overseas student tables were found in the data lake.">>),
                 <<>>, NoPrompt)
    ELSE Handled(llm_format(o), locals \o overseas, Prompt("handle_students", sent, read))

\* route's nested fallback: a fixed text, no store access, no model call.
fallback ==
    Handled(Returned(<<"I can help with these domains right now: ...">>), <<>>, NoPrompt)

\* handler(con, q) for the handler route chose.
RunHandler(h, c, st, o) ==
    CASE h = "handle_lfs" -> handle_lfs(c, st, o)
      [] h = "handle_worc" -> handle_worc(c, st, o)
      [] h = "handle_permits" -> handle_permits(c, st, o)
      [] h = "handle_scholarships" -> handle_scholarships(c, st, o)
      [] h = "handle_students" -> handle_students(c, st, o)
      [] OTHER -> fallback

\* The lines typed at the Q> prompt.
CliLines ==
    { <<>>,
      <<" "," ">>,
      <<" ","W","h","a","t"," ","i","s"," ","t","h","e"," ","u","n","e","m","p","l","o","y","m","e","n","t"," ","r","a","t","e","?"," ">>,
      <<"W","O","R","C"," ","v","a","c","a","n","c","i","e","s"," ","b","y"," ","i","n","d","u","s","t","r","y">>,
      <<"w","o","r","k"," ","p","e","r","m","i","t","s"," ","b","y"," ","o","c","c","u","p","a","t","i","o","n">>,
      <<"s","c","h","o","l","a","r","s","h","i","p","s"," ","a","n","d"," ","g","r","a","n","t","s">>,
      <<"s","t","u","d","e","n","t","s"," ","n","e","a","r"," ","g","r","a","d","u","a","t","i","o","n">>,
      <<"h","e","l","l","o">> }

\* --------------------------------------------------------- db_loader.py
\* Calls of ensure_database in one run of the model.
MaxCalls == 4

\* Chunks of the response body of one download.
MaxChunks == 2

\* What can lie at db_path: nothing, a file whose download was cut short, or
\* the whole database.
FILES == { "missing", "partial", "complete" }

\* db_path.exists()
exists(file) == file # "missing"

\* How one call of ensure_database ended, and what lay at db_path then.
Ensured(kind, exc, file, downloaded) ==
    [kind |-> kind, exc |-> exc, file |-> file, downloaded |-> downloaded]

\* ------------------------------------------------- the Query Synthesizer
\* The data-modifying keywords of the validation step.
MODIFYING_KEYWORDS ==
    { <<"i","n","s","e","r","t">>,
      <<"u","p","d","a","t","e">>,
      <<"d","e","l","e","t","e">>,
      <<"d","r","o","p">>,
      <<"a","l","t","e","r">>,
      <<"c","r","e","a","t","e">> }

\* What the model can answer to a synthesis request: a query, bare or wrapped
\* in a code fence or a label, of any kind of statement, or prose.
ModelResponses ==
    {
      <<"S","E","L","E","C","T"," ","*"," ","F","R","O","M"," ","f","a","c","t","_","j","o","b",
        "_","p","o","s","t","i","n","g","s","_","c","l","e","a","n","e","d">>,
      <<"~","~","~","s","q","l"," ","S","E","L","E","C","T"," ","*"," ","F","R","O","M"," ","f",
        "a","c","t","_","j","o","b","_","p","o","s","t","i","n","g","s","_","c","l","e","a","n",
        "e","d"," ","~","~","~">>,
      <<"S","Q","L",":"," ","S","E","L","E","C","T"," ","*"," ","F","R","O","M"," ","m","i","s",
        "s","i","n","g","_","t","a","b","l","e">>,
      <<"S","Q","L",":"," ","D","R","O","P"," ","T","A","B","L","E"," ","f","a","c","t","_","j",
        "o","b","_","p","o","s","t","i","n","g","s","_","c","l","e","a","n","e","d">>,
      <<"~","~","~","s","q","l"," ","D","e","l","e","t","e"," ","F","r","o","m"," ","f","a","c",
        "t","_","j","o","b","_","p","o","s","t","i","n","g","s","_","c","l","e","a","n","e","d",
        " ","~","~","~">>,
      <<"I","N","S","E","R","T"," ","I","N","T","O"," ","f","a","c","t","_","j","o","b","_","p",
        "o","s","t","i","n","g","s","_","c","l","e","a","n","e","d"," ","S","E","L","E","C","T",
        " ","*"," ","F","R","O","M"," ","f","a","c","t","_","j","o","b","_","p","o","s","t","i",
        "n","g","s","_","c","l","e","a","n","e","d">>,
      <<"u","p","d","a","t","e"," ","f","a","c","t","_","j","o","b","_","p","o","s","t","i","n",
        "g","s","_","c","l","e","a","n","e","d"," ","s","e","t"," ","s","a","l","a","r","y","_",
        "a","v","g"," ","="," ","0"," ","f","r","o","m"," ","f","a","c","t","_","j","o","b","_",
        "p","o","s","t","i","n","g","s","_","c","l","e","a","n","e","d">>,
      <<"A","L","T","E","R"," ","T","A","B","L","E"," ","f","a","c","t","_","j","o","b","_","p",
        "o","s","t","i","n","g","s","_","c","l","e","a","n","e","d">>,
      <<"C","R","E","A","T","E"," ","T","A","B","L","E"," ","t"," ","A","S"," ","S","E","L","E",
        "C","T"," ","*"," ","F","R","O","M"," ","f","a","c","t","_","j","o","b","_","p","o","s",
        "t","i","n","g","s","_","c","l","e","a","n","e","d">>,
      <<"S","E","L","E","C","T"," ","1">>,
      <<"I"," ","c","a","n","n","o","t"," ","a","n","s","w","e","r"," ","t","h","a","t",".">>,
      <<"N","o"," ","a","n","s","w","e","r"," ","f","o","l","l","o","w","s"," ","f","r","o","m"," ","t","h","e"," ","d","a","t","a",".">>,
      <<"~","~","~","s","q","l"," ","~","~","~">>,
      <<>>
    }

\* The fences and labels a response wraps its query in (a code fence is
\* written with tildes here).
WRAPPINGS == << <<"~","~","~","s","q","l">>, <<"~","~","~">>, <<"S","Q","L",":">> >>

\* s without the prefix k, when it starts with k.
RemovePrefix(s, k) ==
    IF StartsWith(s, k) THEN SubSeq(s, Len(k) + 1, Len(s)) ELSE s

\* s without the suffix k, when it ends with k.
RemoveSuffix(s, k) ==
    IF Len(s) >= Len(k) /\ SubSeq(s, Len(s) - Len(k) + 1, Len(s)) = k
    THEN SubSeq(s, 1, Len(s) - Len(k)) ELSE s

\* Step 4: the response without its wrapping text: an opening fence or a
\* label in front, a closing fence behind.
StripWrapping(response) ==
    LET opened == RemovePrefix(RemovePrefix(RemovePrefix(Strip(response),
                        WRAPPINGS[1]), WRAPPINGS[2]), WRAPPINGS[3])
    IN Strip(RemoveSuffix(Strip(opened), WRAPPINGS[2]))

\* Step 5: a query references a table when it has a FROM clause.
ReferencesTable(text) == Has(Lower(text), <<" ","f","r","o","m"," ">>)

SynthesizedQuery(text, status, reason) == [text |-> text, status |-> status, reason |-> reason]

\* A text holds a query when it starts with the word of a statement.
HasQuery(text) ==
    \E w \in MODIFYING_KEYWORDS \cup {<<"s","e","l","e","c","t">>} : StartsWith(Lower(text), w)

\* Validation with "delete" missing from the keywords.
Validate_without_delete(text) ==
    IF ~HasQuery(text)
    THEN SynthesizedQuery(text, "rejected", "query could not be generated")
    ELSE IF HasAny(Lower(text), MODIFYING_KEYWORDS \ {<<"d","e","l","e","t","e">>})
    THEN SynthesizedQuery(text, "rejected", "data-modifying statement")
    ELSE IF ~ReferencesTable(text)
    THEN SynthesizedQuery(text, "rejected", "no tables referenced")
    ELSE SynthesizedQuery(text, "valid", "")

\* Validation without the test for an extractable query.
Validate_without_extraction(text) ==
    IF HasAny(Lower(text), MODIFYING_KEYWORDS)
    THEN SynthesizedQuery(text, "rejected", "data-modifying statement")
    ELSE IF ~ReferencesTable(text)
    THEN SynthesizedQuery(text, "rejected", "no tables referenced")
    ELSE SynthesizedQuery(text, "valid", "")

\* Edge case and step 5: a response with no extractable query is rejected as
\* "query could not be generated"; a query that contains a data-modifying
\* keyword is rejected; a query that references no table is rejected.
Validate(text) ==
    IF ~HasQuery(text)
    THEN SynthesizedQuery(text, "rejected", "query could not be generated")
    ELSE IF HasAny(Lower(text), MODIFYING_KEYWORDS)
    THEN SynthesizedQuery(text, "rejected", "data-modifying statement")
    ELSE IF ~ReferencesTable(text)
    THEN SynthesizedQuery(text, "rejected", "no tables referenced")
    ELSE SynthesizedQuery(text, "valid", "")

\* synthesize(question, topic, schema_catalog), from the model's response on.
synthesize(response) == Validate(StripWrapping(response))

\* con.execute(sql) reads the text as a statement: its first word decides the
\* kind of statement, the table is the one the text names.
Parse(text) ==
    LET t == Lower(Strip(text))
        table == IF Has(t, <<"f","a","c","t","_","j","o","b","_","p","o","s","t","i","n","g","s","_","c","l","e","a","n","e","d">>) THEN TABLE_JOB_POSTINGS ELSE "missing_table"
        op == CHOOSE o \in MODIFYING \cup {"select", "none"} :
                 \/ /\ o = "select" /\ StartsWith(t, <<"s","e","l","e","c","t">>)
                 \/ /\ o = "insert" /\ StartsWith(t, <<"i","n","s","e","r","t">>)
                 \/ /\ o = "update" /\ StartsWith(t, <<"u","p","d","a","t","e">>)
                 \/ /\ o = "delete" /\ StartsWith(t, <<"d","e","l","e","t","e">>)
                 \/ /\ o = "drop" /\ StartsWith(t, <<"d","r","o","p">>)
                 \/ /\ o = "alter" /\ StartsWith(t, <<"a","l","t","e","r">>)
                 \/ /\ o = "create" /\ StartsWith(t, <<"c","r","e","a","t","e">>)
                 \/ /\ o = "none"
                    /\ \A w \in MODIFYING_KEYWORDS \cup {<<"s","e","l","e","c","t">>} : ~StartsWith(t, w)
    IN
    IF op = "select"
    THEN Select(IF ReferencesTable(t) THEN table ELSE "", "", "", NoLimit, {"*"})
    ELSE Statement(op, table)

\* ------------------------------ analytics_response.py: render_analytics_response
\* The frames render_analytics_response is called with: rows, the columns in
\* their order, the numeric ones among them, and the columns whose values
\* cannot be hashed or plotted (lists).
Frame(rows, columns, numeric, unhashable) ==
    [rows |-> rows, cols |-> {columns[i] : i \in DOMAIN columns}, columns |-> columns,
     numeric |-> numeric, unhashable |-> unhashable]

RenderFrames ==
    { Frame(0, <<>>, <<>>, {}),
      Frame(0, <<"year_month", "avg_salary">>, <<"avg_salary">>, {}),
      Frame(3, <<"year_month", "avg_salary">>, <<"avg_salary">>, {}),
      Frame(SampleRows + 1, <<"year_month", "avg_salary">>, <<"avg_salary">>, {}),
      Frame(3, <<"year", "avg_salary">>, <<"year", "avg_salary">>, {}),
      Frame(3, <<"job_title", "employer_name">>, <<>>, {}),
      Frame(3, <<"employer_name", "posted_date">>, <<>>, {}),
      Frame(3, <<"skills", "job_title">>, <<>>, {"skills"}),
      Frame(3, <<"skills", "salary_avg">>, <<"salary_avg">>, {"skills"}) }

\* df.empty
IsEmpty(df) == df.rows = 0 \/ df.cols = {}

\* The x column of the "auto" chart.
x_col(df) ==
    IF "year_month" \in df.cols THEN "year_month"
    ELSE IF "posted_date" \in df.cols THEN "posted_date"
    ELSE df.columns[1]

\* The y column of the "auto" chart: the first numeric column, None without one.
y_col(df) == IF df.numeric # <<>> THEN df.numeric[1] ELSE None

\* What the chart step of render_analytics_response gives: the figure of
\* ax.plot, the bar of value counts with the y axis "Count", the text for a
\* chart type other than "auto", or the exception of matplotlib / pandas on
\* values that cannot be plotted or hashed.
Chart(df, ct) ==
    IF ct # "auto"
    THEN [kind |-> "text", x |-> None, y |-> None]
    ELSE IF x_col(df) \in df.unhashable
    THEN [kind |-> "raised", x |-> x_col(df), y |-> None]
    ELSE IF y_col(df) # None
    THEN [kind |-> "line", x |-> x_col(df), y |-> y_col(df)]
    ELSE [kind |-> "bar", x |-> x_col(df), y |-> "Count"]

\* The try/except around gpt_client.generate_text: the stripped response, or
\* "Unable to generate AI summary: <e>".
summary_text(outcome) ==
    IF outcome = "ok" THEN Strip(ModelContent)
    ELSE <<"Unable to generate AI summary: ", ErrorText(outcome)>>

\* The questions render_analytics_response is called with.
RenderQuestions ==
    { <<"P","l","o","t"," ","t","h","e"," ","s","a","l","a","r","y"," ","t","r","e","n","d">>,
      <<"E","n","t","r","y"," ","l","e","v","e","l"," ","r","o","l","e","s"," ","b","y"," ","e","m","p","l","o","y","e","r">> }

\* --------------------------------------------------------------- questions
\* The pieces questions are made of: keywords of both rule tables, some in
\* upper case or inside a longer word, and one that no rule knows.
Fragments ==
    { <<"M","o","s","t"," ","T","e","c","h">>,
      <<"e","n","t","r","y","-","l","e","v","e","l"," ","m","o","s","t"," ","t","e","c","h">>,
      <<"l","e","a","s","t"," ","t","e","c","h">>,
      <<"e","n","t","r","y">>,
      <<"T","e","c","h","n","o","l","o","g","y">>,
      <<"h","i","g","h","e","s","t"," ","s","a","l","a","r","y">>,
      <<"l","o","w","e","s","t">>,
      <<"A","v","e","r","a","g","e">>,
      <<"t","r","e","n","d">>,
      <<"s","a","l","a","r","y">>,
      <<"u","n","e","m","p","l","o","y","m","e","n","t">>,
      <<"P","o","s","t","i","n","g","s">>,
      <<"p","e","r","m","i","t","s">>,
      <<"f","u","n","d","i","n","g"," ","f","o","r"," ","s","t","u","d","e","n","t","s">>,
      <<"g","r","a","d","u","a","t","e">>,
      <<"h","e","l","l","o">> }

Join(a, b) == IF a = <<>> THEN b ELSE a \o <<" ">> \o b

RECURSIVE QuestionsUpTo(_)
QuestionsUpTo(n) ==
    IF n = 0 THEN { <<>> }
    ELSE LET shorter == QuestionsUpTo(n - 1) IN
         shorter \cup { Join(s, f) : s \in shorter, f \in Fragments }

Questions == QuestionsUpTo(MaxFrags)

\* ------------------------------------------------------------------- state
VARIABLES
    user_q,     \* app.py: the text typed in the Ask Anything box
    intent,     \* app.py: classify(user_q), None before classification
    q,          \* chat_duckdb.py: the line read by main
    handler,    \* chat_duckdb.py: route(q), None before routing
    caller,     \* the client function a model call is in, None outside a call
    svc,        \* the outcomes the service gives to the requests of this call
    tries,      \* requests made to the service in this call
    sleeps,     \* the delays slept in this call, in order
    callRes,    \* how the call ended: Returned(..), Raised(..), NoResult before
    store,      \* the database: its tables and their shapes
    con,        \* the DuckDB connection of the session
    mutations,  \* data-modifying statements the store has carried out
    tab,        \* app.py: the page selected in the sidebar
    pc,         \* app.py: where the script run is
    todo,       \* app.py: the intent routes this run still enters
    df,         \* app.py: the frame run_sql returned
    filtered,   \* app.py: the Explorer's frame after its filters
    screen,     \* app.py: what this run has rendered, in order
    executed,   \* the statements handed to con.execute in this run
    prompts,    \* the data samples sent to the model in this run
    dbFile,     \* chat_duckdb.py: whether DB_PATH exists
    cliPc,      \* chat_duckdb.py: where main is
    printed,    \* chat_duckdb.py: what main has printed, in order
    handled,    \* chat_duckdb.py: what the last handler call did
    closes,     \* chat_duckdb.py: calls of con.close()
    asked,      \* chat_duckdb.py: lines read at the prompt
    raw,        \* the model's response to the synthesis request
    sq,         \* the SynthesizedQuery: its text and its validation status
    synPc,      \* where the synthesis pipeline is
    attempted,  \* the query texts handed to the Query Executor
    chart_type, \* analytics_response.py: the chart_type argument of the call
    prev        \* app.py: the question and the statements of the run before

VARIABLES
    db_path,    \* db_loader.py: the file at database/workforce.db
    secrets,    \* db_loader.py: the keys of st.secrets
    ensPc,      \* db_loader.py: where the running call of ensure_database is
    written,    \* db_loader.py: chunks written to the file by the running call
    ensured     \* db_loader.py: how the calls of ensure_database ended

textVars == <<user_q, intent, q, handler>>
clientVars == <<caller, svc, tries, sleeps, callRes>>
storeVars == <<store, con, mutations>>
webVars == <<tab, pc, todo, df, filtered, screen, executed, prompts>>
cliVars == <<dbFile, cliPc, printed, handled, closes, asked>>
synVars == <<raw, sq, synPc, attempted>>
callVars == <<chart_type, prev>>
loaderVars == <<db_path, secrets, ensPc, written, ensured>>
vars == <<textVars, clientVars, storeVars, webVars, cliVars, synVars, callVars, loaderVars>>

TextIdle == user_q = <<>> /\ intent = None /\ q = <<>> /\ handler = None
ClientIdle == caller = None /\ svc = <<>> /\ tries = 0 /\ sleeps = <<>> /\ callRes = NoResult
StoreIdle == store = <<>> /\ con = NoConnection /\ mutations = 0
WebIdle ==
    /\ tab = "" /\ pc = "idle" /\ todo = <<>> /\ df = EmptyFrame /\ filtered = EmptyFrame
    /\ screen = <<>> /\ executed = <<>> /\ prompts = <<>>

CliIdle ==
    /\ dbFile = "missing" /\ cliPc = "off" /\ printed = <<>> /\ handled = NoHandled
    /\ closes = 0 /\ asked = 0

NoQuery == [text |-> <<>>, status |-> "none", reason |-> ""]

SynIdle == raw = <<>> /\ sq = NoQuery /\ synPc = "off" /\ attempted = <<>>

\* No run before this one.
NoRun == [tab |-> "", q |-> <<>>, intent |-> None, executed |-> <<>>]

CallIdle == chart_type = None /\ prev = NoRun

LoaderIdle ==
    /\ db_path = "missing" /\ secrets = {} /\ ensPc = "off" /\ written = 0
    /\ ensured = <<>>

\* ---------------------------------------- the two classifiers on every text
InitClassify ==
    /\ user_q \in Questions
    /\ q = user_q
    /\ intent = None
    /\ handler = None
    /\ ClientIdle /\ StoreIdle /\ WebIdle /\ CliIdle /\ SynIdle /\ CallIdle /\ LoaderIdle

ClassifyStep ==
    /\ intent = None
    /\ intent' = classify(user_q)
    /\ UNCHANGED <<callVars, loaderVars, cliVars, synVars, user_q, q, handler, clientVars, storeVars, webVars>>

RouteStep ==
    /\ handler = None
    /\ handler' = route(q)
    /\ UNCHANGED <<callVars, loaderVars, cliVars, synVars, user_q, q, intent, clientVars, storeVars, webVars>>

NextClassify == ClassifyStep \/ RouteStep

SpecClassify == InitClassify /\ [][NextClassify]_vars

\* ------------------------------------------------- one call of a model client
InitClient == TextIdle /\ ClientIdle /\ StoreIdle /\ WebIdle /\ CliIdle /\ SynIdle /\ CallIdle /\ LoaderIdle

\* A caller enters ask_gpt or llm_format; the service is in some configuration.
BeginCall ==
    /\ caller = None
    /\ \E c \in CLIENTS, script \in [1..MaxAttempts -> OUTCOMES] :
          /\ caller' = c
          /\ svc' = script
    /\ tries' = 0
    /\ sleeps' = <<>>
    /\ callRes' = NoResult
    /\ UNCHANGED <<callVars, loaderVars, cliVars, synVars, textVars, storeVars, webVars>>

\* The single request both clients make, and what they do with its outcome.
Attempt ==
    /\ caller # None
    /\ callRes = NoResult
    /\ tries' = tries + 1
    /\ callRes' = ClientResult(caller, svc[tries + 1])
    /\ UNCHANGED <<callVars, loaderVars, cliVars, synVars, caller, svc, sleeps, textVars, storeVars, webVars>>

\* The caller has the result; the client is free for the next call.
EndCall ==
    /\ callRes # NoResult
    /\ caller' = None
    /\ svc' = <<>>
    /\ tries' = 0
    /\ sleeps' = <<>>
    /\ callRes' = NoResult
    /\ UNCHANGED <<callVars, loaderVars, cliVars, synVars, textVars, storeVars, webVars>>

NextClient == BeginCall \/ Attempt \/ EndCall

SpecClient == InitClient /\ [][NextClient]_vars

\* ------------------------------------------------------- the pages of app.py
InitWeb ==
    /\ TextIdle /\ ClientIdle /\ WebIdle /\ CliIdle /\ SynIdle /\ CallIdle /\ LoaderIdle
    /\ store \in WebStores
    /\ con = WebConnection
    /\ mutations = 0

RunOver == pc \in {"idle", "done", "crashed"}

\* A question is typed into the Ask Anything box: the script runs from the top.
Ask ==
    /\ RunOver
    /\ \E question \in AskQuestions : user_q' = question
    /\ tab' = "Ask Anything"
    /\ pc' = "classify"
    /\ intent' = None
    /\ todo' = <<>> /\ df' = EmptyFrame /\ filtered' = EmptyFrame
    /\ screen' = <<>> /\ executed' = <<>> /\ prompts' = <<>>
    /\ prev' = [tab |-> tab, q |-> user_q, intent |-> intent, executed |-> executed]
    /\ UNCHANGED <<chart_type, loaderVars, cliVars, synVars, q, handler, clientVars, storeVars>>

\* intent = classify(user_q), and the routes the two if-chains select.
Classify ==
    /\ pc = "classify"
    /\ intent' = classify(user_q)
    /\ todo' = RoutesFor(intent')
    /\ pc' = "run_sql"
    /\ UNCHANGED <<callVars, loaderVars, cliVars, synVars, user_q, q, handler, clientVars, storeVars,
                   tab, df, filtered, screen, executed, prompts>>

\* df = run_sql(...) of the route entered.
RunSql ==
    /\ pc = "run_sql"
    /\ LET sql == RouteQuery(Head(todo))
           r == run_sql(con, store, sql) IN
       /\ df' = r.df
       /\ screen' = screen \o r.shown
       /\ \E order \in r.orders :
             executed' = Append(executed, Executed(sql, r.ok, r.df.rows, order))
       /\ store' = r.store
       /\ mutations' = mutations + (IF r.mutated THEN 1 ELSE 0)
    /\ pc' = "dataframe"
    /\ UNCHANGED <<callVars, loaderVars, cliVars, synVars, textVars, clientVars, con, tab, todo, filtered, prompts>>

\* show_results: st.dataframe(df)
ShowDataframe ==
    /\ pc = "dataframe"
    /\ screen' = Append(screen, ScreenItem("table", <<>>, df.rows, df.rows))
    /\ pc' = "chart"
    /\ UNCHANGED <<callVars, loaderVars, cliVars, synVars, textVars, clientVars, storeVars, tab, todo, df, filtered,
                   executed, prompts>>

\* show_results: bar_chart / line_chart when the route asks for one. The
\* ValueError of the chart builder is caught nowhere: it ends the script run.
ShowChart ==
    /\ pc = "chart"
    /\ LET chart == RouteChart(Head(todo)) IN
       IF chart.type = None
       THEN /\ pc' = "summary"
            /\ UNCHANGED screen
       ELSE IF ChartRaises(df, chart)
       THEN /\ pc' = "crashed"
            /\ screen' = Append(screen, ScreenItem("exception", <<"ValueError">>, 0, 0))
       ELSE /\ pc' = "summary"
            /\ screen' = Append(screen, ScreenItem(chart.type, <<chart.x, chart.y>>, df.rows, df.rows))
    /\ UNCHANGED <<callVars, loaderVars, cliVars, synVars, textVars, clientVars, storeVars, tab, todo, df, filtered,
                   executed, prompts>>

\* show_results: summary = ask_gpt(... df.to_string() ...), then st.write;
\* the prompt holds every row of df.
ShowSummary ==
    /\ pc = "summary"
    /\ prompts' = Append(prompts, [by |-> "show_results", rows |-> df.rows, of |-> df.rows])
    /\ \E o \in OUTCOMES :
          screen' = Append(screen, ScreenItem("summary", ask_gpt(o).value, 0, 0))
    /\ todo' = Tail(todo)
    /\ pc' = IF Tail(todo) = <<>> THEN "done" ELSE "run_sql"
    /\ UNCHANGED <<callVars, loaderVars, cliVars, synVars, textVars, clientVars, storeVars, tab, df, filtered, executed>>

\* The Job Postings Explorer is selected: the script runs from the top.
OpenExplorer ==
    /\ RunOver
    /\ tab' = "Job Postings Explorer"
    /\ pc' = "x_load"
    /\ \E question \in ExplorerQuestions : user_q' = question
    /\ intent' = None
    /\ todo' = <<>> /\ df' = EmptyFrame /\ filtered' = EmptyFrame
    /\ screen' = <<>> /\ executed' = <<>> /\ prompts' = <<>>
    /\ prev' = [tab |-> tab, q |-> user_q, intent |-> intent, executed |-> executed]
    /\ UNCHANGED <<chart_type, loaderVars, cliVars, synVars, q, handler, clientVars, storeVars>>

\* df = run_sql(<load>), then the date columns are derived from
\* df["posting_date_clean"]: a KeyError, caught nowhere, when run_sql
\* returned the frame without columns.
ExplorerLoad ==
    /\ pc = "x_load"
    /\ LET r == run_sql(con, store, ExplorerQuery) IN
       /\ \E order \in r.orders :
             executed' = Append(executed, Executed(ExplorerQuery, r.ok, r.df.rows, order))
       /\ store' = r.store
       /\ mutations' = mutations + (IF r.mutated THEN 1 ELSE 0)
       /\ IF "posting_date_clean" \in r.df.cols
          THEN /\ df' = DataFrame(r.df.rows, r.df.cols \cup {"year_month"})
               /\ screen' = screen \o r.shown
               /\ pc' = "x_filter"
          ELSE /\ df' = r.df
               /\ screen' = screen \o r.shown
                               \o <<ScreenItem("exception", <<"KeyError">>, 0, 0)>>
               /\ pc' = "crashed"
    /\ UNCHANGED <<callVars, loaderVars, cliVars, synVars, textVars, clientVars, con, tab, todo, filtered, prompts>>

\* The time range and the filters keep some of the rows; the table shows the
\* first 300 of them.
ExplorerTable ==
    /\ pc = "x_filter"
    /\ \E keep \in RowCounts :
          /\ keep <= df.rows
          /\ filtered' = DataFrame(keep, df.cols)
          /\ screen' = Append(screen,
                ScreenItem("table", <<>>, HeadRows(filtered', TableRows).rows, keep))
    /\ pc' = IF user_q = <<>> THEN "done" ELSE "x_ask"
    /\ UNCHANGED <<callVars, loaderVars, cliVars, synVars, textVars, clientVars, storeVars, tab, todo, df, executed, prompts>>

\* Ask AI About These Jobs: the ICT rows of `filtered` when the question holds
\* a tech term, else all of them; a warning when none is left; then, in
\* either case, ask_ai_section with the first 100 rows.
ExplorerAsk ==
    /\ pc = "x_ask"
    /\ \E n \in RowCounts, o \in OUTCOMES :
          /\ IF HasAny(Lower(user_q), tech_terms)
             THEN n <= Min(filtered.rows, store[TABLE_JOB_POSTINGS].tech)
             ELSE n = filtered.rows
          /\ LET ai_df == DataFrame(n, filtered.cols)
                 sample == HeadRows(ai_df, SampleRows) IN
             /\ prompts' = Append(prompts, [by |-> "ask_ai_section",
                                            rows |-> sample.rows, of |-> ai_df.rows])
             /\ screen' = screen
                    \o (IF ai_df.rows = 0
                        THEN <<ScreenItem("warning", <<"No matching job postings found">>, 0, 0)>>
                        ELSE <<>>)
                    \o <<ScreenItem("summary", ask_gpt(o).value, 0, 0)>>
    /\ pc' = "done"
    /\ UNCHANGED <<callVars, loaderVars, cliVars, synVars, textVars, clientVars, storeVars, tab, todo, df,
                   filtered, executed>>

NextWeb ==
    \/ Ask
    \/ Classify
    \/ RunSql
    \/ ShowDataframe
    \/ ShowChart
    \/ ShowSummary
    \/ OpenExplorer
    \/ ExplorerLoad
    \/ ExplorerTable
    \/ ExplorerAsk

SpecWeb == InitWeb /\ [][NextWeb]_vars

\* ------------------------------- render_analytics_response, step by step
\* A caller hands a frame, a question and a chart type to
\* render_analytics_response.
CallRender ==
    /\ RunOver
    /\ \E frame \in RenderFrames, question \in RenderQuestions, ct \in {"auto", "bar"} :
          /\ df' = frame
          /\ user_q' = question
          /\ chart_type' = ct
    /\ tab' = "render_analytics_response"
    /\ pc' = "r_table"
    /\ intent' = None
    /\ todo' = <<>> /\ filtered' = EmptyFrame
    /\ screen' = <<>> /\ executed' = <<>> /\ prompts' = <<>>
    /\ prev' = [tab |-> tab, q |-> user_q, intent |-> intent, executed |-> executed]
    /\ UNCHANGED <<q, handler, clientVars, storeVars, cliVars, synVars, loaderVars>>

\* if df.empty: the notice, and return; else st.dataframe(df).
RenderTable ==
    /\ pc = "r_table"
    /\ IF IsEmpty(df)
       THEN /\ screen' = Append(screen,
                    ScreenItem("info", <<"No data available for this query.">>, 0, 0))
            /\ pc' = "done"
       ELSE /\ screen' = Append(screen, ScreenItem("table", <<>>, df.rows, df.rows))
            /\ pc' = "r_chart"
    /\ UNCHANGED <<textVars, clientVars, storeVars, cliVars, synVars, callVars, loaderVars,
                   tab, todo, df, filtered, executed, prompts>>

\* The chart step; its exception is caught nowhere and leaves the function.
RenderChart ==
    /\ pc = "r_chart"
    /\ LET chart == Chart(df, chart_type) IN
       CASE chart.kind = "raised" ->
              /\ screen' = Append(screen, ScreenItem("exception", <<"TypeError">>, 0, 0))
              /\ pc' = "crashed"
         [] chart.kind = "text" ->
              /\ screen' = Append(screen,
                      ScreenItem("text", <<"Chart type not implemented yet.">>, 0, 0))
              /\ pc' = "r_summary"
         [] OTHER ->
              /\ screen' = Append(screen,
                      ScreenItem(chart.kind, <<chart.x, chart.y>>, df.rows, df.rows))
              /\ pc' = "r_summary"
    /\ UNCHANGED <<textVars, clientVars, storeVars, cliVars, synVars, callVars, loaderVars,
                   tab, todo, df, filtered, executed, prompts>>

\* sample = df.head(100); the summary of the model, or the text of the except
\* branch, is written and returned.
RenderSummary ==
    /\ pc = "r_summary"
    /\ prompts' = Append(prompts, [by |-> "render_analytics_response",
                                   rows |-> HeadRows(df, SampleRows).rows, of |-> df.rows])
    /\ \E o \in OUTCOMES :
          screen' = Append(screen, ScreenItem("summary", summary_text(o), 0, 0))
    /\ pc' = "done"
    /\ UNCHANGED <<textVars, clientVars, storeVars, cliVars, synVars, callVars, loaderVars,
                   tab, todo, df, filtered, executed>>

NextRender ==
    \/ CallRender
    \/ RenderTable
    \/ RenderChart
    \/ RenderSummary

SpecRender == InitWeb /\ [][NextRender]_vars


\* ------------------------------------------- chat_duckdb.py: main, step by step
InitCli ==
    /\ TextIdle /\ ClientIdle /\ WebIdle /\ SynIdle /\ CallIdle /\ LoaderIdle
    /\ store \in CliStores
    /\ con = NoConnection
    /\ mutations = 0
    /\ dbFile \in {"present", "missing"}
    /\ cliPc = "start"
    /\ printed = <<>> /\ handled = NoHandled /\ closes = 0 /\ asked = 0

Line(kind, text) == [kind |-> kind, text |-> text]

\* con = connect_db(); its RuntimeError is printed and main returns.
Connect ==
    /\ cliPc = "start"
    /\ IF dbFile = "present"
       THEN /\ con' = connect_db
            /\ printed' = Append(printed, Line("banner", <<>>))
            /\ cliPc' = "input"
       ELSE /\ con' = con
            /\ printed' = Append(printed, Line("connect_error", <<"Database not found at: ">>))
            /\ cliPc' = "returned"
    /\ UNCHANGED <<callVars, loaderVars, textVars, clientVars, webVars, synVars, store, mutations,
                   dbFile, handled, closes, asked>>

\* q = input("Q> ").strip(); end of input, an interrupt or an empty line
\* leave the loop, and con.close() follows the loop.
ReadLine ==
    /\ cliPc = "input"
    /\ \E typed \in { Line("line", l) : l \in (IF asked < MaxLines THEN CliLines ELSE {<<>>}) }
                      \cup { Line("eof", <<>>), Line("interrupt", <<>>) } :
          IF typed.kind = "line" /\ Strip(typed.text) # <<>>
          THEN /\ q' = Strip(typed.text)
               /\ asked' = asked + 1
               /\ cliPc' = "handle"
               /\ UNCHANGED <<callVars, loaderVars, con, printed, closes>>
          ELSE /\ printed' = Append(printed, Line("goodbye", <<>>))
               /\ con' = [con EXCEPT !.open = FALSE]
               /\ closes' = closes + 1
               /\ cliPc' = "closed"
               /\ UNCHANGED <<callVars, loaderVars, q, asked>>
    /\ UNCHANGED <<callVars, loaderVars, user_q, intent, handler, clientVars, webVars, synVars, store,
                   mutations, dbFile, handled>>

\* handler = route(q); answer = handler(con, q): the answer is printed, an
\* Exception of the handler is printed, and the loop goes on.
Handle ==
    /\ cliPc = "handle"
    /\ handler' = route(q)
    /\ \E o \in OUTCOMES :
          LET h == RunHandler(handler', con, store, o) IN
          /\ handled' = h
          /\ printed' = Append(printed,
                IF h.res.kind = "raised"
                THEN Line("error", <<h.res.exc>>)
                ELSE Line("result", h.res.value))
    /\ cliPc' = "input"
    /\ UNCHANGED <<callVars, loaderVars, user_q, intent, q, clientVars, webVars, synVars, storeVars,
                   dbFile, closes, asked>>

\* Ctrl-C while the handler runs: KeyboardInterrupt is no Exception, so it
\* leaves main through the except clause and the statement after the loop.
HandleInterrupted ==
    /\ cliPc = "handle"
    /\ handler' = route(q)
    /\ printed' = Append(printed, Line("traceback", <<"KeyboardInterrupt">>))
    /\ cliPc' = "aborted"
    /\ UNCHANGED <<callVars, loaderVars, user_q, intent, q, clientVars, webVars, synVars, storeVars,
                   dbFile, handled, closes, asked>>

\* The database file stops being reachable while the session is open (the
\* disk or the share it lies on fails): from then on con.execute raises.
StoreFails ==
    /\ cliPc \in {"input", "handle"}
    /\ con.open /\ con.reachable
    /\ con' = [con EXCEPT !.reachable = FALSE]
    /\ UNCHANGED <<textVars, clientVars, webVars, synVars, callVars, loaderVars, cliVars, store, mutations>>

NextCli ==
    \/ Connect
    \/ StoreFails
    \/ ReadLine
    \/ Handle
    \/ HandleInterrupted

SpecCli == InitCli /\ [][NextCli]_vars

\* ------------------------------------- the pipeline from synthesis to execution
InitSynth ==
    /\ TextIdle /\ ClientIdle /\ WebIdle /\ CliIdle /\ CallIdle /\ LoaderIdle
    /\ store \in WebStores
    /\ con = WebConnection
    /\ mutations = 0
    /\ raw = <<>> /\ sq = NoQuery /\ synPc = "idle" /\ attempted = <<>>

\* A question arrives; the model answers the synthesis request, and the
\* response is stripped and validated.
Synthesize ==
    /\ synPc \in {"idle", "executed", "rejected"}
    /\ \E response \in ModelResponses :
          /\ raw' = response
          /\ sq' = synthesize(response)
    /\ attempted' = <<>>
    /\ df' = EmptyFrame
    /\ screen' = <<>>
    /\ synPc' = "synthesized"
    /\ UNCHANGED <<callVars, loaderVars, textVars, clientVars, storeVars, cliVars,
                   tab, pc, todo, filtered, executed, prompts>>

\* A valid query goes to the Query Executor: run_sql on the session's
\* connection.
ExecuteQuery ==
    /\ synPc = "synthesized"
    /\ sq.status = "valid"
    /\ LET r == run_sql(con, store, Parse(sq.text)) IN
       /\ attempted' = Append(attempted, sq.text)
       /\ df' = r.df
       /\ screen' = screen \o r.shown
       /\ store' = r.store
       /\ mutations' = mutations + (IF r.mutated THEN 1 ELSE 0)
    /\ synPc' = "executed"
    /\ UNCHANGED <<callVars, loaderVars, textVars, clientVars, cliVars, con, raw, sq,
                   tab, pc, todo, filtered, executed, prompts>>

\* A rejected query is reported with its text; the Query Executor is not
\* invoked.
ReportRejected ==
    /\ synPc = "synthesized"
    /\ sq.status = "rejected"
    /\ screen' = Append(screen, ScreenItem("error", <<"SynthesisRejected: ", sq.reason>>, 0, 0))
    /\ synPc' = "rejected"
    /\ UNCHANGED <<callVars, loaderVars, textVars, clientVars, storeVars, cliVars, raw, sq, attempted,
                   tab, pc, todo, df, filtered, executed, prompts>>

NextSynth ==
    \/ Synthesize
    \/ ExecuteQuery
    \/ ReportRejected

SpecSynth == InitSynth /\ [][NextSynth]_vars



\* ---------------------------------------------------------------- claim C3
\* The rule tables in declaration order. A rule matches a text when every
\* clause of it has a keyword that occurs in the lower-cased text.
IntentRules ==
    << [topic |-> "top_tech",     clauses |-> { {<<"m","o","s","t"," ","t","e","c","h">>} }],
       [topic |-> "bottom_tech",  clauses |-> { {<<"l","e","a","s","t"," ","t","e","c","h">>} }],
       [topic |-> "entry_tech",   clauses |-> { {<<"e","n","t","r","y">>}, {<<"t","e","c","h">>} }],
       [topic |-> "high_salary",  clauses |-> { {<<"h","i","g","h","e","s","t">>}, {<<"s","a","l","a","r","y">>} }],
       [topic |-> "low_salary",   clauses |-> { {<<"l","o","w","e","s","t">>}, {<<"s","a","l","a","r","y">>} }],
       [topic |-> "avg_salary",   clauses |-> { {<<"a","v","e","r","a","g","e">>}, {<<"s","a","l","a","r","y">>} }],
       [topic |-> "salary_trend", clauses |-> { {<<"t","r","e","n","d">>}, {<<"s","a","l","a","r","y">>} }] >>

HandlerRules ==
    << [topic |-> "handle_lfs",          clauses |-> { LFS_KEYWORDS }],
       [topic |-> "handle_worc",         clauses |-> { WORC_KEYWORDS }],
       [topic |-> "handle_permits",      clauses |-> { PERMITS_KEYWORDS }],
       [topic |-> "handle_scholarships", clauses |-> { SCHOLARSHIP_KEYWORDS }],
       [topic |-> "handle_students",     clauses |-> { STUDENT_KEYWORDS }] >>

RuleMatches(rule, text) ==
    \A clause \in rule.clauses : \E k \in clause : Has(Lower(text), k)

MatchingRules(rules, text) ==
    { i \in 1..Len(rules) : RuleMatches(rules[i], text) }

FirstMatch(rules, text, default) ==
    LET m == MatchingRules(rules, text) IN
    IF m = {} THEN default
    ELSE rules[CHOOSE i \in m : \A j \in m : i <= j].topic

\* C3: classify and route return, for every text, the topic of the first rule
\* in declaration order that matches, whatever later rules match as well, and
\* the default (general, the fallback handler) when none matches; the value is
\* always a label of the closed enumeration.
C3_FirstMatchWins ==
    /\ intent # None =>
          /\ intent = FirstMatch(IntentRules, user_q, "general")
          /\ intent \in INTENTS
    /\ handler # None =>
          /\ handler = FirstMatch(HandlerRules, q, "fallback")
          /\ handler \in HANDLERS

\* Both classifiers have answered a text that an earlier and a later rule of
\* each table match.
C3_Witness ==
    /\ intent = "top_tech"
    /\ 3 \in MatchingRules(IntentRules, user_q)
    /\ handler = "handle_scholarships"
    /\ 5 \in MatchingRules(HandlerRules, q)

\* ---------------------------------------------------------------- claim C5
\* The three fixed failure texts of the client's contract.
RateLimitedMsg == <<"The model service is temporarily rate-limited.">>

UnavailableMsg == <<"The model service is unavailable.">>

ERROR_TEXTS == { ErrorText(o) : o \in OUTCOMES \ {"ok"} }

\* The terminal states a returned string can stand for.
TerminalStates(value) ==
    { t \in { "success", "rate_limited", "unavailable", "error_detail" } :
        \/ t = "success" /\ value = Strip(ModelContent)
        \/ t = "rate_limited" /\ value = RateLimitedMsg
        \/ t = "unavailable" /\ value = UnavailableMsg
        \/ t = "error_detail" /\ Len(value) = 2 /\ value[2] \in ERROR_TEXTS }

\* C5: every call of a model client ends with a string handed to the caller,
\* in exactly one of the four terminal states; no outcome of the service
\* leaves the client as an exception.
C5_CallerAlwaysGetsString ==
    callRes # NoResult =>
        /\ callRes.kind = "returned"
        /\ Cardinality(TerminalStates(callRes.value)) = 1

\* ---------------------------------------------------------------- claim C6
\* C6: when the service fails with a transport error on the first two
\* attempts of a call and would succeed on the third, ask_gpt returns the
\* text of the successful attempt, not a failure string.
C6_SucceedsOnThirdAttempt ==
    ( /\ caller = "ask_gpt"
      /\ callRes # NoResult
      /\ svc[1] = "transport" /\ svc[2] = "transport" /\ svc[3] = "ok" )
    => callRes = Returned(Strip(ModelContent))

\* ---------------------------------------------------------------- claim C7
\* C7: when every attempt of a call is answered with a rate-limit signal,
\* ask_gpt returns the fixed rate-limited text and no exception propagates.
C7_RateLimitedMessage ==
    ( /\ caller = "ask_gpt"
      /\ callRes # NoResult
      /\ \A i \in DOMAIN svc : svc[i] = "rate_limit" )
    => callRes = Returned(RateLimitedMsg)

\* ---------------------------------------------------------------- claim C4
\* The tables a route's query may read.
PermittedTables(r) == { RouteQuery(r).table }

\* C4: a question no keyword rule matches is classified general, and the
\* query stage of the general route is given the full catalog of the store
\* as its permitted tables, never an empty set.
C4_GeneralGetsFullCatalog ==
    ( /\ tab = "Ask Anything"
      /\ intent # None
      /\ MatchingRules(IntentRules, user_q) = {}
      /\ TABLE_JOB_POSTINGS \in DOMAIN store )
    => /\ intent = "general"
       /\ \A i \in DOMAIN RoutesFor(intent) :
             /\ PermittedTables(RoutesFor(intent)[i]) = DOMAIN store
             /\ PermittedTables(RoutesFor(intent)[i]) # {}

\* ---------------------------------------------------------------- claim C8
LastOf(seq) == seq[Len(seq)]

\* A value is a TabularResult when it has rows and columns.
IsTabularResult(x) == DOMAIN x = {"rows", "cols"}

\* C8: when the store rejects a statement, the executor fails with an error
\* that carries the message and the statement, that error is what is shown,
\* and no TabularResult (for example an empty one) is returned for it.
C8_StoreFailureIsAnError ==
    ( /\ pc = "dataframe"
      /\ ~LastOf(executed).ok )
    => /\ \E i \in DOMAIN screen :
             /\ screen[i].kind = "error"
             /\ screen[i].sql = LastOf(executed).sql
       /\ ~IsTabularResult(df)

\* ---------------------------------------------------------------- claim C9
\* C9: every frame the executor hands on has at most a fixed maximum of rows,
\* and a table shown with fewer rows than its frame is marked as truncated.
C9_ResultsCappedAndMarked ==
    /\ df.rows <= TableRows
    /\ \A i \in DOMAIN screen :
          (screen[i].kind = "table" /\ screen[i].rows < screen[i].of)
          => \E j \in DOMAIN screen : screen[j].kind = "truncated"

\* --------------------------------------------------------------- claim C10
\* C10: every narrative request holds a bounded sample of the result, at most
\* a fixed number of rows, whatever the size of the result.
C10_PromptSampleBounded ==
    \A i \in DOMAIN prompts : prompts[i].rows <= SampleRows

\* ---------------------------------------------------------------------- C1
\* C1: a query of the model that contains a data-modifying keyword is
\* rejected by the synthesizer, no query handed to the Query Executor
\* contains one, and the store has carried out no mutation.
C1_ModifyingQueryNeverExecuted ==
    /\ mutations = 0
    /\ \A i \in DOMAIN attempted : ~HasAny(Lower(attempted[i]), MODIFYING_KEYWORDS)
    /\ (sq.status # "none" /\ HasAny(Lower(sq.text), MODIFYING_KEYWORDS))
           => sq.status = "rejected"
    /\ (synPc = "executed") => sq.status = "valid"

\* A fenced DELETE statement of the model has been rejected and reported, and
\* nothing was handed to the Query Executor.
C1_Witness ==
    /\ synPc = "rejected"
    /\ StartsWith(Lower(sq.text), <<"d","e","l","e","t","e">>)
    /\ sq.text # raw
    /\ sq.status = "rejected"
    /\ attempted = <<>>
    /\ mutations = 0

\* ---------------------------------------------------------------------- C2
\* C2: every connection that serves the question pipeline is open in
\* read-only mode: no statement executed through it, data-modifying ones
\* included, changes the stored data.
C2_ConnectionsAreReadOnly ==
    con.open =>
        /\ con.read_only
        /\ \A op \in MODIFYING, t \in DOMAIN store :
              LET r == Execute(con, store, Statement(op, t)) IN
              r.store = store /\ ~r.mutated


\* --------------------------------------------------------------------- C11
\* C11: when the model cannot be reached for the narrative of a request that
\* has read its data, the narrative stage gives a string instead of raising,
\* and the request does not end in an error only.
C11_NarrativeFailureIsAString ==
    handled.sent # NoPrompt =>
        /\ handled.res.kind = "returned"
        /\ printed[Len(printed)].kind = "result"


\* --------------------------------------------------------------------- C12
\* C12: a failure of the chart stage never suppresses a result that was
\* produced: once the table of a result with columns is on the page, the
\* request is not ended by an exception.
C12_ChartFailureKeepsTable ==
    (df.cols # {} /\ \E i \in DOMAIN screen : screen[i].kind = "table")
        => pc # "crashed"

\* --------------------------------------------------------------------- C13
\* C13: a chart is produced only for a question that contains one of the
\* charting keywords plot, chart, graph, trend, visualize.
CHART_KEYWORDS ==
    { <<"p","l","o","t">>, <<"c","h","a","r","t">>, <<"g","r","a","p","h">>, <<"t","r","e","n","d">>, <<"v","i","s","u","a","l","i","z","e">> }

IsChart(item) == item.kind \in {"bar", "line"}

C13_ChartOnlyOnKeyword ==
    (\E i \in DOMAIN screen : IsChart(screen[i]))
        => HasAny(Lower(user_q), CHART_KEYWORDS)

\* --------------------------------------------------------------------- C14
\* C14: for a result without a numeric column no figure is produced, and the
\* axes of every figure are columns of the result.
C14_NoChartWithoutNumericColumn ==
    tab = "render_analytics_response" =>
        \A i \in DOMAIN screen :
            IsChart(screen[i]) =>
                /\ df.numeric # <<>>
                /\ {screen[i].text[1], screen[i].text[2]} \subseteq df.cols

\* --------------------------------------------------------------------- C15
\* C15: when the store has no tables, the request hands nothing to
\* con.execute, and it ends with the error "no tables available".
C15_EmptyCatalogIsRejected ==
    (DOMAIN store = {} /\ tab = "Ask Anything") =>
        /\ executed = <<>>
        /\ pc \in {"done", "crashed"} =>
              \E i \in DOMAIN screen :
                  screen[i].kind = "error" /\ screen[i].text = <<"no tables available">>

\* --------------------------------------------------------------------- C16
\* C16: a response of the model with no extractable query (prose, or nothing
\* left once labels and fences are stripped) is rejected and reported as
\* "query could not be generated", and no text that is not a statement is
\* handed to the Query Executor.
C16_NoQueryIsRejected ==
    /\ (sq.status # "none" /\ Parse(sq.text).op = "none") =>
          /\ sq.status = "rejected"
          /\ sq.reason = "query could not be generated"
          /\ synPc = "rejected" =>
                screen[Len(screen)].text = <<"SynthesisRejected: ", "query could not be generated">>
    /\ \A i \in DOMAIN attempted :
          attempted[i] # <<>> /\ Parse(attempted[i]).op # "none"

\* A response that is only a code fence has been stripped to the empty text,
\* rejected and reported, and nothing was handed to the Query Executor.
C16_Witness ==
    /\ synPc = "rejected"
    /\ raw # <<>>
    /\ sq.text = <<>>
    /\ sq.reason = "query could not be generated"
    /\ attempted = <<>>

\* --------------------------------------------------------------------- C17
\* C17: no failure inside a request leaves it as an unhandled exception.
C17_NoUnhandledException == pc # "crashed"

\* --------------------------------------------------------------------- C18
\* C18: within one request the stages run in the order execute, chart,
\* narrate: nothing of an earlier stage (an error of the store, a table, a
\* chart) is rendered after the narrative.
C18_StagesInOrder ==
    \A i, j \in DOMAIN screen :
        (i < j /\ screen[i].kind = "summary")
            => screen[j].kind \notin {"error", "table", "bar", "line"}


C20_CatalogNeverRaises ==
    con.open =>
        \A name \in CLI_TABLES :
            LET te == table_exists(con, store, name) IN
            /\ ~te.raised
            /\ (DOMAIN store = {} \/ ~con.reachable) => ~te.found


\* ------------------------------------------------------- ensure_database
InitLoader ==
    /\ TextIdle /\ ClientIdle /\ StoreIdle /\ WebIdle /\ CliIdle /\ SynIdle /\ CallIdle
    /\ db_path \in {"missing", "complete"}
    /\ secrets \in { {}, {"DB_URL"}, {"OPENAI_API_KEY"}, {"DB_URL", "OPENAI_API_KEY"} }
    /\ ensPc = "idle"
    /\ written = 0
    /\ ensured = <<>>

\* ensure_database() up to its try block: the file that exists is returned;
\* without it and without DB_URL the call raises ValueError.
EnsureDatabase ==
    /\ ensPc = "idle"
    /\ Len(ensured) < MaxCalls
    /\ IF exists(db_path)
       THEN /\ ensured' = Append(ensured, Ensured("returned", "", db_path, FALSE))
            /\ ensPc' = "idle"
       ELSE IF "DB_URL" \notin secrets
       THEN /\ ensured' = Append(ensured, Ensured("raised", "ValueError", db_path, FALSE))
            /\ ensPc' = "idle"
       ELSE /\ ensured' = ensured
            /\ ensPc' = "get"
    /\ UNCHANGED <<textVars, clientVars, storeVars, webVars, cliVars, synVars, callVars,
                   db_path, secrets, written>>

\* mkdir, requests.get and r.raise_for_status(): the request is answered, or
\* it fails and the except branch re-raises.
Get ==
    /\ ensPc = "get"
    /\ \E answered \in BOOLEAN :
          IF answered
          THEN /\ ensPc' = "open"
               /\ ensured' = ensured
          ELSE /\ ensPc' = "idle"
               /\ ensured' = Append(ensured, Ensured("raised", "RequestException", db_path, TRUE))
    /\ UNCHANGED <<textVars, clientVars, storeVars, webVars, cliVars, synVars, callVars,
                   db_path, secrets, written>>

\* open(db_path, "wb"): the file is created, empty.
OpenFile ==
    /\ ensPc = "open"
    /\ db_path' = "partial"
    /\ written' = 0
    /\ ensPc' = "write"
    /\ UNCHANGED <<textVars, clientVars, storeVars, webVars, cliVars, synVars, callVars,
                   secrets, ensured>>

\* for chunk in r.iter_content(...): f.write(chunk). The body ends and the
\* path is returned, or the connection breaks and the except branch
\* re-raises; nothing removes the file that was begun.
WriteChunk ==
    /\ ensPc = "write"
    /\ \E next \in {"chunk", "end", "error"} :
          CASE next = "chunk" ->
                  /\ written < MaxChunks
                  /\ written' = written + 1
                  /\ UNCHANGED <<db_path, ensPc, ensured>>
            [] next = "end" ->
                  /\ written >= 1
                  /\ db_path' = "complete"
                  /\ ensured' = Append(ensured, Ensured("returned", "", "complete", TRUE))
                  /\ ensPc' = "idle"
                  /\ written' = 0
            [] next = "error" ->
                  /\ ensured' = Append(ensured, Ensured("raised", "ChunkedEncodingError", db_path, TRUE))
                  /\ ensPc' = "idle"
                  /\ written' = 0
                  /\ UNCHANGED db_path
    /\ UNCHANGED <<textVars, clientVars, storeVars, webVars, cliVars, synVars, callVars, secrets>>

NextLoader == EnsureDatabase \/ Get \/ OpenFile \/ WriteChunk

SpecLoader == InitLoader /\ [][NextLoader]_vars

\* --------------------------------------------------------------------- C21
\* C21: after a transport error on the first request ask_gpt makes a second
\* request before any sleep; the call returns the text of that request when
\* it succeeds, and the "service unavailable" text when every request of the
\* call fails with a transport error.
C21_ReconnectRetriesOnce ==
    ( /\ caller = "ask_gpt"
      /\ callRes # NoResult
      /\ svc[1] = "transport" )
    => /\ tries >= 2
       /\ svc[2] = "ok" => (callRes = Returned(Strip(ModelContent)) /\ sleeps = <<>>)
       /\ (\A i \in DOMAIN svc : svc[i] = "transport") => callRes = Returned(UnavailableMsg)

\* --------------------------------------------------------------------- C22
\* C22: an error of the service that is neither a rate limit nor a transport
\* error ends the call of ask_gpt after exactly one request, without a sleep,
\* with a returned string that holds the text of the error.
C22_OtherErrorEndsAtOnce ==
    ( /\ caller = "ask_gpt"
      /\ callRes # NoResult
      /\ svc[1] = "other" )
    => /\ tries = 1
       /\ sleeps = <<>>
       /\ callRes.kind = "returned"
       /\ Len(callRes.value) = 2
       /\ callRes.value[2] = ErrorText("other")

\* ask_gpt has answered a request the service refused as malformed.
C22_Witness ==
    /\ caller = "ask_gpt"
    /\ svc[1] = "other"
    /\ tries = 1
    /\ callRes = Returned(<<"GPT Error: ", "BadRequestError">>)

\* --------------------------------------------------------------------- C23
\* C23: a call of ask_gpt whose first request is rate-limited sleeps before
\* its retry, and every later sleep of the call is twice the one before it.
C23_DelaysDouble ==
    ( /\ caller = "ask_gpt"
      /\ callRes # NoResult
      /\ svc[1] = "rate_limit" )
    => /\ Len(sleeps) >= 1
       /\ sleeps[1] > 0
       /\ \A k \in 2..Len(sleeps) : sleeps[k] = 2 * sleeps[k - 1]

\* --------------------------------------------------------------------- C24
\* C24: a call of ask_gpt makes at most MaxAttempts requests and the one
\* reconnect retry, and returns a failure string only when the budget is used
\* up or the service refused the request with a non-recoverable error.
C24_FailsOnlyAfterBudget ==
    ( /\ caller = "ask_gpt"
      /\ callRes # NoResult )
    => /\ tries <= MaxAttempts + 1
       /\ callRes.kind = "returned"
       /\ callRes.value # Strip(ModelContent)
              => \/ tries >= MaxAttempts
                 \/ svc[tries] = "other"

\* The request of a running call is answered: the HTTP client of the SDK
\* returns or raises.
SpecClientLive == SpecClient /\ WF_vars(Attempt)

\* Every call that was begun ends with a result.
CallTerminates == (caller # None) ~> (callRes # NoResult)


\* --------------------------------------------------------------------- C25
\* C25: a question asked in Ask Anything runs exactly one intent route: when
\* the run is over, one statement was executed, and one table and one summary
\* are on the page.
C25_OneRoutePerQuestion ==
    (tab = "Ask Anything" /\ pc = "done")
        => /\ Len(executed) = 1
           /\ Len(SelectSeq(screen, LAMBDA it : it.kind = "table")) = 1
           /\ Len(SelectSeq(screen, LAMBDA it : it.kind = "summary")) = 1

\* --------------------------------------------------------------------- C26
\* C26: once run_sql has shown a SQL error, no chart and no summary of the
\* model follows it in the request.
C26_NothingAfterSqlError ==
    tab = "Ask Anything" =>
        \A i, j \in DOMAIN screen :
            (i < j /\ screen[i].kind = "error")
                => screen[j].kind \notin {"bar", "line", "summary"}

\* --------------------------------------------------------------------- C27
\* C27: no prompt is sent to the model for data of zero rows.
C27_NoPromptForEmptyData ==
    \A i \in DOMAIN prompts : prompts[i].of > 0


\* --------------------------------------------------------------------- C28
\* C28: ensure_database returns its path only when the whole database lies
\* there, and no call leaves the file of a download that failed part-way; a
\* call that finds the file downloads nothing, and a call without the file
\* and without DB_URL raises and creates no file.
C28_OnlyCompleteFileIsReady ==
    /\ \A i \in DOMAIN ensured :
          /\ ensured[i].kind = "returned" => ensured[i].file = "complete"
          /\ (ensured[i].kind = "raised" /\ ensured[i].downloaded) => ensured[i].file = "missing"
          /\ ensured[i].exc = "ValueError" => (ensured[i].file = "missing" /\ ~ensured[i].downloaded)
    /\ ensPc = "idle" => db_path # "partial"


\* --------------------------------------------------------------------- C29
\* C29: in the command-line session a failed connect reads no question; while
\* the loop runs the connection is open, also after a handler raised; and
\* every end of the loop, by an empty line, end of input or an interrupt,
\* leaves the connection closed by exactly one con.close().
C29_SessionLoop ==
    /\ cliPc = "returned" => (asked = 0 /\ ~con.open /\ closes = 0)
    /\ cliPc \in {"input", "handle"} => (con.open /\ closes = 0)
    /\ (cliPc = "input" /\ handled.res.kind = "raised")
           => printed[Len(printed)].kind = "error"
    /\ cliPc \in {"closed", "aborted"} => (~con.open /\ closes = 1)

\* --------------------------------------------------------------------- C30
\* The tables of the store that belong to the domain of a handler.
DomainTables(h, st) ==
    CASE h = "handle_lfs" -> {LFS_TABLE} \cap DOMAIN st
      [] h = "handle_worc" ->
            {WORC_ANNUAL_POSTINGS, WORC_TOTAL_POSTINGS, WORC_INDUSTRY} \cap DOMAIN st
      [] h = "handle_permits" -> {PERMITS_TABLE} \cap DOMAIN st
      [] h = "handle_scholarships" -> {SCHOLARSHIP_TABLE} \cap DOMAIN st
      [] h = "handle_students" ->
            { t \in DOMAIN st : \/ StartsWith(Lower(t), LOCAL_STUDENT_PREFIX)
                                \/ StartsWith(Lower(t), OVERSEAS_STUDENT_PREFIX) }
      [] OTHER -> {}

\* The text a handler returns when it finds none of its tables.
NotPresent(h) == RunHandler(h, connect_db, <<>>, "ok").res

\* C30: a handler of the command line sends a prompt to the model only after
\* it has read at least one table of its domain; when the store holds none
\* of them it reads nothing and sends nothing, and what it returns is its
\* fixed text; the fallback handler reads nothing and sends nothing.
C30_ModelOnlyAfterRead ==
    (handled # NoHandled /\ cliPc # "aborted") =>
        LET present == DomainTables(handler, store) IN
        /\ handled.sent # NoPrompt
              => /\ handled.reads # <<>>
                 /\ \A i \in DOMAIN handled.reads : handled.reads[i] \in present
        /\ present = {}
              => /\ handled.sent = NoPrompt
                 /\ handled.reads = <<>>
                 /\ handled.res.kind = "returned" => handled.res = NotPresent(handler)
        /\ handler = "fallback" => handled = fallback

\* A session in which handle_lfs answered that its table is not present and
\* handle_worc then read its table and asked the model.
C30_Witness ==
    /\ cliPc = "input"
    /\ handler = "handle_worc"
    /\ handled.sent # NoPrompt
    /\ handled.reads = <<WORC_TOTAL_POSTINGS>>
    /\ \E i \in DOMAIN printed : printed[i] = Line("result", NotPresent("handle_lfs").value)


====
